---- MODULE Spec2Model ----
(***************************************************************************)
(* ATLAS hedging core of trmagent: exposure ledger, recommendation         *)
(* lifecycle, order orchestrator and settlement lifecycle, modelled as one *)
(* record store on which every service method runs as one transaction.     *)
(* Entities are rows of sequences; a row's id is its index.  Amounts are   *)
(* whole currency units, timestamps are ticks of the clock `now`.          *)
(***************************************************************************)
EXTENDS Integers, Sequences, FiniteSets, TLC

VARIABLES exposures, recs, orders, quotes, trades, settlements, now, days, grouped,
          policies, returned, decision, sessions

vars == <<exposures, recs, orders, quotes, trades, settlements, now, days, grouped,
          policies, returned, decision, sessions>>

storeVars == <<exposures, recs, orders, quotes, trades, settlements, now>>

horizonVars == <<days, grouped>>

policyVars == <<policies>>

\* the call of _determine_action under way, and the database sessions of the
\* requests that run side by side
engineVars == <<decision, sessions>>

\* what the last call returned: a row, a count or True (Ok), None or False
\* (None); NoCall before the first call
Ok == "ok"

None == "none"

NoCall == "no call"

NoDecision == << >>

NoSessions == << >>

\* return None / return False before anything is written
Fails ==
    /\ returned' = None
    /\ UNCHANGED <<exposures, recs, orders, quotes, trades, settlements, now,
                   days, grouped, policies, decision, sessions>>

(***************************************************************************)
(* Bounds of the model                                                     *)
(***************************************************************************)
MaxOrders == 1

MaxQuotes == 2

MaxWorkflowQuotes == 1

MaxSettlements == 2

MaxTime == 1

MaxRecOrders == 2

MaxExposuresPerRun == 2

MaxPolicies == 2

MaxExposures == 2

MaxRecommendations == 2

(***************************************************************************)
(* Values                                                                  *)
(***************************************************************************)
NoId == 0

NoTime == -1

NoUser == "none"

NoRate == 0

\* require_approval_above left unset
NoAmount == -1

Callers == {"A"}

Users == {"u1", "u2"}

Treasurers == {"u1"}

ExposureStatus == {"open", "partially_hedged", "fully_hedged", "settled", "cancelled"}

RecommendationStatus == {"pending", "accepted", "rejected", "expired"}

OrderStatus == {"draft", "pending_approval", "approved", "sent_to_bank", "quoted",
                "executed", "cancelled", "rejected"}

TradeStatus == {"confirmed", "pending_settlement", "settled", "failed"}

SettlementStatus == {"pending", "processing", "completed", "failed"}

\* inputs of the requests
ExposureAmounts == {200000}

HedgeArguments == {-50000, 0, 100000, 200000, 250000}

OrderAmounts == {50000, 250000}

RecommendedAmounts == {50000}

UpdateAmounts == {100000}

UpdateRates == {4100}

QuoteValidity == {NoTime, 0}

ValueDates == {2}

TradeData == [currency_sold : {"COP"}, amount_sold : {200000000},
              currency_bought : {"USD"}, amount_bought : {50000},
              value_date : ValueDates]

SettlementData == [settlement_date : {1}, currency : {"USD"}, amount : {50000}]

Min(a, b) == IF a <= b THEN a ELSE b

Max(a, b) == IF a >= b THEN a ELSE b

(***************************************************************************)
(* Exposure ledger                                                         *)
(***************************************************************************)
\* hedged / amount * 100, 0 when amount is not positive
HedgePercentage(hedged, amount) ==
    IF amount > 0 THEN (hedged * 100) \div amount ELSE 0

\* update_hedge_amount taking an exposure for fully hedged only above its amount
SetHedgeAmount_StrictFull(exposure, hedged_amount) ==
    [exposure EXCEPT
        !.amount_hedged = hedged_amount,
        !.hedge_percentage = HedgePercentage(hedged_amount, exposure.amount),
        !.status = IF hedged_amount > exposure.amount THEN "fully_hedged"
                   ELSE IF hedged_amount > 0 THEN "partially_hedged"
                   ELSE "open"]

\* ExposureService.update_hedge_amount: the row after the call
SetHedgeAmount(exposure, hedged_amount) ==
    [exposure EXCEPT
        !.amount_hedged = hedged_amount,
        !.hedge_percentage = HedgePercentage(hedged_amount, exposure.amount),
        !.status = IF hedged_amount >= exposure.amount THEN "fully_hedged"
                   ELSE IF hedged_amount > 0 THEN "partially_hedged"
                   ELSE "open"]

\* ExposureService.get
GetExposure(exposure_id, company_id) ==
    IF exposure_id \in DOMAIN exposures /\ exposures[exposure_id].company_id = company_id
    THEN exposure_id ELSE NoId

update_hedge_amount(exposure_id, company_id, hedged_amount) ==
    IF /\ GetExposure(exposure_id, company_id) # NoId
    THEN /\ exposures' = [exposures EXCEPT
                             ![exposure_id] = SetHedgeAmount(@, hedged_amount)]
         /\ UNCHANGED <<recs, orders, quotes, trades, settlements, now, horizonVars, policyVars, engineVars>>
         /\ returned' = Ok
    ELSE Fails

\* ExposureService.delete: soft delete through the status
delete_exposure(exposure_id, company_id) ==
    IF /\ GetExposure(exposure_id, company_id) # NoId
    THEN /\ exposures' = [exposures EXCEPT ![exposure_id].status = "cancelled"]
         /\ UNCHANGED <<recs, orders, quotes, trades, settlements, now, horizonVars, policyVars, engineVars>>
         /\ returned' = Ok
    ELSE Fails

\* the Exposure row built by create and by the CSV upload, with the column
\* defaults of the hedge fields
NewExposure(company_id, amount) ==
    [company_id |-> company_id, amount |-> amount, amount_hedged |-> 0,
     hedge_percentage |-> 0, status |-> "open"]

\* ExposureService.create
create_exposure(company_id, amount) ==
    /\ exposures' = Append(exposures, NewExposure(company_id, amount))
    /\ UNCHANGED <<recs, orders, quotes, trades, settlements, now, horizonVars, policyVars, engineVars>>
    /\ returned' = Ok

\* the ExposureUpdate bodies of the requests: the fields that were set
ExposureUpdates ==
    {[amount |-> a] : a \in UpdateAmounts}
        \cup {[status |-> st] : st \in ExposureStatus}
        \cup {[amount |-> a, status |-> st] : a \in UpdateAmounts, st \in ExposureStatus}

\* the row after the setattr loop of update: the fields of the body and no other
ApplyExposureUpdate(exposure, data) ==
    [exposure EXCEPT
        !.amount = IF "amount" \in DOMAIN data THEN data.amount ELSE @,
        !.status = IF "status" \in DOMAIN data THEN data.status ELSE @]

\* ExposureService.update
update_exposure(exposure_id, company_id, data) ==
    IF /\ GetExposure(exposure_id, company_id) # NoId
    THEN /\ exposures' = [exposures EXCEPT
                             ![exposure_id] = ApplyExposureUpdate(@, data)]
         /\ UNCHANGED <<recs, orders, quotes, trades, settlements, now, horizonVars, policyVars, engineVars>>
         /\ returned' = Ok
    ELSE Fails

\* ExposureService._update_from_row: the amount of the CSV row replaces the
\* exposure's, and no other field of the model is written
UpdateFromRow(exposure, amount) == [exposure EXCEPT !.amount = amount]

\* ExposureService.upload_csv with one row, whose amount _parse_csv_row has
\* found positive: `existing` is the company's exposure _find_existing returns
\* for the row, NoId when there is none and the row is created
upsert_row(company_id, existing, amount) ==
    /\ IF existing # NoId
       THEN /\ GetExposure(existing, company_id) # NoId
            /\ exposures' = [exposures EXCEPT ![existing] = UpdateFromRow(@, amount)]
       ELSE exposures' = Append(exposures, NewExposure(company_id, amount))
    /\ UNCHANGED <<recs, orders, quotes, trades, settlements, now, horizonVars, policyVars, engineVars>>
    /\ returned' = Ok

\* _update_exposure_hedge without the cap at the exposure's amount
UpdateExposureHedge_NoClamp(exposure, hedged_amount) ==
    LET new_hedged == exposure.amount_hedged + hedged_amount IN
    [exposure EXCEPT
        !.amount_hedged = new_hedged,
        !.hedge_percentage = HedgePercentage(new_hedged, exposure.amount),
        !.status = IF new_hedged >= exposure.amount THEN "fully_hedged"
                   ELSE "partially_hedged"]

\* OrderOrchestrator._update_exposure_hedge: the row after the call
UpdateExposureHedge(exposure, hedged_amount) ==
    LET current_hedged == exposure.amount_hedged
        new_hedged == current_hedged + hedged_amount
        capped == Min(new_hedged, exposure.amount)
    IN
    [exposure EXCEPT
        !.amount_hedged = capped,
        !.hedge_percentage = HedgePercentage(capped, exposure.amount),
        !.status = IF capped >= exposure.amount THEN "fully_hedged"
                   ELSE "partially_hedged"]

\* the exposures after _update_exposure_hedge(exposure_id, hedged_amount):
\* the lookup is by id alone, and a missing row changes nothing
ExposuresAfterHedge(exposure_id, hedged_amount) ==
    IF exposure_id \in DOMAIN exposures
    THEN [exposures EXCEPT ![exposure_id] = UpdateExposureHedge(@, hedged_amount)]
    ELSE exposures

(***************************************************************************)
(* Recommendation lifecycle                                                *)
(***************************************************************************)
\* RecommendationService.get
GetRecommendation(recommendation_id, company_id) ==
    IF recommendation_id \in DOMAIN recs /\ recs[recommendation_id].company_id = company_id
    THEN recommendation_id ELSE NoId

\* the row after a decision taken at `now`
Decide(rec, status, decided_by) ==
    [rec EXCEPT !.status = status, !.decided_at = now, !.decided_by = decided_by]

accept_recommendation(recommendation_id, company_id, decided_by) ==
    IF /\ GetRecommendation(recommendation_id, company_id) # NoId
       /\ recs[recommendation_id].status = "pending"
    THEN /\ recs' = [recs EXCEPT ![recommendation_id] = Decide(@, "accepted", decided_by)]
         /\ UNCHANGED <<exposures, orders, quotes, trades, settlements, now, horizonVars, policyVars, engineVars>>
         /\ returned' = Ok
    ELSE Fails

reject_recommendation(recommendation_id, company_id, decided_by) ==
    IF /\ GetRecommendation(recommendation_id, company_id) # NoId
       /\ recs[recommendation_id].status = "pending"
    THEN /\ recs' = [recs EXCEPT ![recommendation_id] = Decide(@, "rejected", decided_by)]
         /\ UNCHANGED <<exposures, orders, quotes, trades, settlements, now, horizonVars, policyVars, engineVars>>
         /\ returned' = Ok
    ELSE Fails

\* expire_old sweeping the pending rows of every company
ExpireOld_AnyCompany(rec, company_id) ==
    IF /\ rec.status = "pending"
       /\ rec.valid_until # NoTime
       /\ rec.valid_until < now
    THEN [rec EXCEPT !.status = "expired"]
    ELSE rec

\* RecommendationService.expire_old: one UPDATE over the company's pending rows
\* whose valid_until is before now (a NULL valid_until never compares true)
ExpireOld(rec, company_id) ==
    IF /\ rec.company_id = company_id
       /\ rec.status = "pending"
       /\ rec.valid_until # NoTime
       /\ rec.valid_until < now
    THEN [rec EXCEPT !.status = "expired"]
    ELSE rec

expire_old(company_id) ==
    /\ recs' = [r \in DOMAIN recs |-> ExpireOld(recs[r], company_id)]
    /\ UNCHANGED <<exposures, orders, quotes, trades, settlements, now, horizonVars, policyVars, engineVars>>
    /\ returned' = Ok

(***************************************************************************)
(* Order orchestrator                                                      *)
(***************************************************************************)
ApprovalThreshold == 100000

\* OrderOrchestrator._check_approval_required
CheckApprovalRequired(company_id, amount) == amount >= ApprovalThreshold

\* OrderOrchestrator.get_order
GetOrder(order_id, company_id) ==
    IF order_id \in DOMAIN orders /\ orders[order_id].company_id = company_id
    THEN order_id ELSE NoId

\* the recommendations after create_order has looked up data.recommendation_id:
\* the lookup is by id alone and does not read the recommendation's status
RecsAfterCreateOrder(recommendation_id, created_by) ==
    IF recommendation_id # NoId /\ recommendation_id \in DOMAIN recs
    THEN [recs EXCEPT ![recommendation_id] = Decide(@, "accepted", created_by)]
    ELSE recs

\* the HedgeOrder row built by create_order
NewOrder(company_id, data) ==
    LET requires_approval == CheckApprovalRequired(company_id, data.amount) IN
    [company_id |-> company_id,
     exposure_id |-> data.exposure_id,
     recommendation_id |-> data.recommendation_id,
     amount |-> data.amount,
     target_rate |-> data.target_rate,
     status |-> IF requires_approval THEN "pending_approval" ELSE "approved",
     requires_approval |-> requires_approval,
     approved_by |-> NoUser,
     approved_at |-> NoTime]

\* the effect of create_order, shared with create_from_recommendation
CreateOrderEffect(company_id, data, created_by) ==
    /\ orders' = Append(orders, NewOrder(company_id, data))
    /\ recs' = RecsAfterCreateOrder(data.recommendation_id, created_by)
    /\ UNCHANGED <<exposures, quotes, trades, settlements, now, horizonVars, policyVars, engineVars>>
    /\ returned' = Ok

create_order(company_id, data, created_by) ==
    CreateOrderEffect(company_id, data, created_by)

\* create_from_recommendation without its check of the status
create_from_recommendation_NoCheck(recommendation_id, company_id, created_by) ==
    IF /\ GetRecommendation(recommendation_id, company_id) # NoId
    THEN CreateOrderEffect(company_id,
            [exposure_id |-> recs[recommendation_id].exposure_id,
             recommendation_id |-> recommendation_id,
             amount |-> recs[recommendation_id].amount_to_hedge,
             target_rate |-> recs[recommendation_id].suggested_rate],
            created_by)
    ELSE Fails

create_from_recommendation(recommendation_id, company_id, created_by) ==
    IF /\ GetRecommendation(recommendation_id, company_id) # NoId
       /\ recs[recommendation_id].status = "pending"
    THEN CreateOrderEffect(company_id,
            [exposure_id |-> recs[recommendation_id].exposure_id,
             recommendation_id |-> recommendation_id,
             amount |-> recs[recommendation_id].amount_to_hedge,
             target_rate |-> recs[recommendation_id].suggested_rate],
            created_by)
    ELSE Fails

\* a HedgeOrderUpdate that carried a status
ApplyOrderUpdate_WithStatus(order, target_rate) ==
    [order EXCEPT !.target_rate = target_rate, !.status = "approved"]

\* setattr of the set fields of a HedgeOrderUpdate: target_rate, limit_rate,
\* settlement_date and notes, never the status or the approval fields
ApplyOrderUpdate(order, target_rate) ==
    [order EXCEPT !.target_rate = target_rate]

update_order(order_id, company_id, target_rate) ==
    IF /\ GetOrder(order_id, company_id) # NoId
       /\ orders[order_id].status \in {"draft", "pending_approval"}
    THEN /\ orders' = [orders EXCEPT ![order_id] = ApplyOrderUpdate(@, target_rate)]
         /\ UNCHANGED <<exposures, recs, quotes, trades, settlements, now, horizonVars, policyVars, engineVars>>
         /\ returned' = Ok
    ELSE Fails

approve_order(order_id, company_id, approved_by) ==
    IF /\ GetOrder(order_id, company_id) # NoId
       /\ orders[order_id].status = "pending_approval"
    THEN /\ orders' = [orders EXCEPT ![order_id].status = "approved",
                                     ![order_id].approved_by = approved_by,
                                     ![order_id].approved_at = now]
         /\ UNCHANGED <<exposures, recs, quotes, trades, settlements, now, horizonVars, policyVars, engineVars>>
         /\ returned' = Ok
    ELSE Fails

reject_order(order_id, company_id) ==
    IF /\ GetOrder(order_id, company_id) # NoId
       /\ orders[order_id].status = "pending_approval"
    THEN /\ orders' = [orders EXCEPT ![order_id].status = "rejected"]
         /\ UNCHANGED <<exposures, recs, quotes, trades, settlements, now, horizonVars, policyVars, engineVars>>
         /\ returned' = Ok
    ELSE Fails

\* cancel_order refusing no status
NotCancellable_None == {}

\* the statuses from which cancel_order refuses to cancel
NotCancellable == {"executed"}

cancel_order(order_id, company_id) ==
    IF /\ GetOrder(order_id, company_id) # NoId
       /\ orders[order_id].status \notin NotCancellable
    THEN /\ orders' = [orders EXCEPT ![order_id].status = "cancelled"]
         /\ UNCHANGED <<exposures, recs, quotes, trades, settlements, now, horizonVars, policyVars, engineVars>>
         /\ returned' = Ok
    ELSE Fails

(***************************************************************************)
(* Quotes                                                                  *)
(***************************************************************************)
\* the Quote row built by add_quote
NewQuote(order_id, valid_until) ==
    [order_id |-> order_id, valid_until |-> valid_until,
     is_accepted |-> FALSE, is_expired |-> FALSE]

\* add_quote promoting an order of any status to quoted
StatusAfterQuote_Always(status) == "quoted"

\* add_quote promotes an approved order to quoted and leaves any other status
StatusAfterQuote(status) == IF status = "approved" THEN "quoted" ELSE status

add_quote(order_id, company_id, valid_until) ==
    IF /\ GetOrder(order_id, company_id) # NoId
    THEN /\ quotes' = Append(quotes, NewQuote(order_id, valid_until))
         /\ orders' = [orders EXCEPT ![order_id].status = StatusAfterQuote(@)]
         /\ UNCHANGED <<exposures, recs, trades, settlements, now, horizonVars, policyVars, engineVars>>
         /\ returned' = Ok
    ELSE Fails

\* accept_quote taking no quote for expired
QuoteIsPastValidity_Never(quote) == FALSE

\* quote.valid_until and quote.valid_until < datetime.utcnow()
QuoteIsPastValidity(quote) == quote.valid_until # NoTime /\ quote.valid_until < now

\* the Quote row after accept_quote: marked expired when past its validity,
\* accepted otherwise; no other quote of the order is touched
AcceptQuote(quote) ==
    IF QuoteIsPastValidity(quote)
    THEN [quote EXCEPT !.is_expired = TRUE]
    ELSE [quote EXCEPT !.is_accepted = TRUE]

accept_quote(quote_id, order_id, company_id) ==
    IF /\ GetOrder(order_id, company_id) # NoId
       /\ quote_id \in DOMAIN quotes
       /\ quotes[quote_id].order_id = order_id
    THEN /\ quotes' = [quotes EXCEPT ![quote_id] = AcceptQuote(@)]
         /\ returned' = IF QuoteIsPastValidity(quotes[quote_id]) THEN None ELSE Ok
         /\ UNCHANGED <<exposures, recs, orders, trades, settlements, now, horizonVars, policyVars, engineVars>>
    ELSE Fails

(***************************************************************************)
(* Execution                                                               *)
(***************************************************************************)
\* execute_order letting an order through before its approval
Executable_WithPending == {"pending_approval", "approved", "quoted"}

\* the statuses from which execute_order executes
Executable == {"approved", "quoted"}

\* the Trade row built by execute_order
NewTrade(company_id, order_id, trade_data) ==
    [company_id |-> company_id,
     order_id |-> order_id,
     currency_sold |-> trade_data.currency_sold,
     amount_sold |-> trade_data.amount_sold,
     currency_bought |-> trade_data.currency_bought,
     amount_bought |-> trade_data.amount_bought,
     value_date |-> trade_data.value_date,
     status |-> "confirmed"]

\* execute_order builds the trade and no settlement row: create_from_trade is
\* a separate call, which no code path of the orchestrator makes
execute_order(order_id, company_id, trade_data) ==
    IF /\ GetOrder(order_id, company_id) # NoId
       /\ orders[order_id].status \in Executable
    THEN /\ orders' = [orders EXCEPT ![order_id].status = "executed"]
         /\ exposures' = IF orders[order_id].exposure_id # NoId
                         THEN ExposuresAfterHedge(orders[order_id].exposure_id,
                                                  orders[order_id].amount)
                         ELSE exposures
         /\ trades' = Append(trades, NewTrade(company_id, order_id, trade_data))
         /\ UNCHANGED <<recs, quotes, settlements, now, horizonVars, policyVars, engineVars>>
         /\ returned' = Ok
    ELSE Fails

(***************************************************************************)
(* Settlement lifecycle                                                    *)
(***************************************************************************)
NewSettlement(trade_id, settlement_date, currency, amount) ==
    [trade_id |-> trade_id, settlement_date |-> settlement_date,
     currency |-> currency, amount |-> amount, status |-> "pending"]

\* SettlementService.create
create_settlement(data, trade_id) ==
    /\ trade_id \in DOMAIN trades
    /\ settlements' = Append(settlements,
            NewSettlement(trade_id, data.settlement_date, data.currency, data.amount))
    /\ UNCHANGED <<exposures, recs, orders, quotes, trades, now, horizonVars, policyVars, engineVars>>
    /\ returned' = Ok

\* the two legs create_from_trade builds: the sold one, then the bought one
LegsOfTrade(trade_id, trade) ==
    << NewSettlement(trade_id, trade.value_date, trade.currency_sold, trade.amount_sold),
       NewSettlement(trade_id, trade.value_date, trade.currency_bought, trade.amount_bought) >>

create_from_trade(trade_id) ==
    /\ trade_id \in DOMAIN trades
    /\ settlements' = settlements \o LegsOfTrade(trade_id, trades[trade_id])
    /\ UNCHANGED <<exposures, recs, orders, quotes, trades, now, horizonVars, policyVars, engineVars>>
    /\ returned' = Ok

\* SettlementService.list_for_trade, as the set of row ids
ListForTrade(rows, trade_id) == {s \in DOMAIN rows : rows[s].trade_id = trade_id}

\* SettlementService.update: SettlementUpdate carries any status
update_settlement(settlement_id, status) ==
    IF /\ settlement_id \in DOMAIN settlements
    THEN /\ settlements' = [settlements EXCEPT ![settlement_id].status = status]
         /\ UNCHANGED <<exposures, recs, orders, quotes, trades, now, horizonVars, policyVars, engineVars>>
         /\ returned' = Ok
    ELSE Fails

mark_processing(settlement_id) ==
    IF /\ settlement_id \in DOMAIN settlements
    THEN /\ settlements' = [settlements EXCEPT ![settlement_id].status = "processing"]
         /\ UNCHANGED <<exposures, recs, orders, quotes, trades, now, horizonVars, policyVars, engineVars>>
         /\ returned' = Ok
    ELSE Fails

mark_failed(settlement_id) ==
    IF /\ settlement_id \in DOMAIN settlements
    THEN /\ settlements' = [settlements EXCEPT ![settlement_id].status = "failed"]
         /\ UNCHANGED <<exposures, recs, orders, quotes, trades, now, horizonVars, policyVars, engineVars>>
         /\ returned' = Ok
    ELSE Fails

\* _check_trade_settlement satisfied by one completed settlement
AllCompleted_Any(rows, trade_id) ==
    \E s \in ListForTrade(rows, trade_id) : rows[s].status = "completed"

\* all(s.status == COMPLETED for s in settlements) over the rows as the
\* session holds them
AllCompleted(rows, trade_id) ==
    \A s \in ListForTrade(rows, trade_id) : rows[s].status = "completed"

\* the exposure _check_trade_settlement marks settled for a trade, or NoId:
\* the one of the trade's order, when its hedged amount reaches its amount
ExposureToSettle(trade_id) ==
    LET order_id == trades[trade_id].order_id
        exposure_id == IF order_id \in DOMAIN orders
                       THEN orders[order_id].exposure_id ELSE NoId
    IN IF /\ exposure_id \in DOMAIN exposures
          /\ exposures[exposure_id].amount_hedged >= exposures[exposure_id].amount
       THEN exposure_id ELSE NoId

\* SettlementService.mark_completed with _check_trade_settlement
mark_completed(settlement_id) ==
    IF /\ settlement_id \in DOMAIN settlements
    THEN /\ LET rows == [settlements EXCEPT ![settlement_id].status = "completed"]
                trade_id == settlements[settlement_id].trade_id
                all_completed == AllCompleted(rows, trade_id)
            IN /\ settlements' = rows
               /\ trades' = IF all_completed /\ trade_id \in DOMAIN trades
                            THEN [trades EXCEPT ![trade_id].status = "settled"]
                            ELSE trades
               /\ exposures' = IF /\ all_completed
                                  /\ trade_id \in DOMAIN trades
                                  /\ ExposureToSettle(trade_id) # NoId
                               THEN [exposures EXCEPT
                                         ![ExposureToSettle(trade_id)].status = "settled"]
                               ELSE exposures
         /\ UNCHANGED <<recs, orders, quotes, now, horizonVars, policyVars, engineVars>>
         /\ returned' = Ok
    ELSE Fails

(***************************************************************************)
(* Concurrent requests                                                     *)
(*                                                                         *)
(* Every request runs in its own Session (autoflush off): what it reads it *)
(* reads from the committed rows, and its writes reach the rows at         *)
(* db.commit().  No query locks a row and no row carries a version, so a   *)
(* request is two steps: its reads, and its commit.                        *)
(***************************************************************************)
MaxSessions == 2

MaxExposureOrders == 2

Open == "open"

Committed == "committed"

\* the row a session holds of an exposure it looked up by id, or NoId
ReadExposure(exposure_id) ==
    IF exposure_id \in DOMAIN exposures THEN exposures[exposure_id] ELSE NoId

\* execute_order up to db.commit(): get_order, the status check and the
\* lookup of the exposure in _update_exposure_hedge
begin_execute_order(order_id, company_id, trade_data) ==
    IF /\ GetOrder(order_id, company_id) # NoId
       /\ orders[order_id].status \in Executable
    THEN /\ sessions' = Append(sessions,
                [request |-> "execute_order",
                 state |-> Open,
                 order_id |-> order_id,
                 company_id |-> company_id,
                 trade_data |-> trade_data,
                 amount |-> orders[order_id].amount,
                 exposure_id |-> IF orders[order_id].exposure_id \in DOMAIN exposures
                                 THEN orders[order_id].exposure_id ELSE NoId,
                 exposure |-> ReadExposure(orders[order_id].exposure_id)])
         /\ UNCHANGED <<storeVars, horizonVars, policyVars, decision, returned>>
    ELSE Fails

\* the columns a session changed on its exposure, written over the row
WriteHedge(row, held) ==
    [row EXCEPT !.amount_hedged = held.amount_hedged,
                !.hedge_percentage = held.hedge_percentage,
                !.status = held.status]

\* the exposure row _update_exposure_hedge adds to, read under a row lock
HedgeBase_Locked(s) == exposures[sessions[s].exposure_id]

\* the exposure row _update_exposure_hedge adds to: the one the session read
HedgeBase(s) == sessions[s].exposure

\* db.commit() of execute_order: the order, the trade and the exposure as the
\* session computed them
commit_execute_order(s) ==
    /\ sessions[s].request = "execute_order"
    /\ sessions[s].state = Open
    /\ LET session == sessions[s] IN
       /\ orders' = [orders EXCEPT ![session.order_id].status = "executed"]
       /\ trades' = Append(trades, NewTrade(session.company_id, session.order_id,
                                            session.trade_data))
       /\ exposures' = IF session.exposure_id # NoId
                       THEN [exposures EXCEPT ![session.exposure_id] =
                                WriteHedge(@, UpdateExposureHedge(HedgeBase(s),
                                                                  session.amount))]
                       ELSE exposures
    /\ sessions' = [sessions EXCEPT ![s].state = Committed]
    /\ UNCHANGED <<recs, quotes, settlements, now, horizonVars, policyVars, decision>>
    /\ returned' = Ok

\* mark_completed up to db.commit(): get, the status set on the session's own
\* row, and the reads of _check_trade_settlement
begin_mark_completed(settlement_id) ==
    IF /\ settlement_id \in DOMAIN settlements
    THEN /\ LET rows == [settlements EXCEPT ![settlement_id].status = "completed"]
                trade_id == settlements[settlement_id].trade_id
                all_completed == AllCompleted(rows, trade_id)
                                    /\ trade_id \in DOMAIN trades
            IN sessions' = Append(sessions,
                [request |-> "mark_completed",
                 state |-> Open,
                 settlement_id |-> settlement_id,
                 trade_id |-> IF all_completed THEN trade_id ELSE NoId,
                 exposure_id |-> IF all_completed
                                 THEN ExposureToSettle(trade_id) ELSE NoId])
         /\ UNCHANGED <<storeVars, horizonVars, policyVars, decision, returned>>
    ELSE Fails

\* db.commit() of mark_completed
commit_mark_completed(s) ==
    /\ sessions[s].request = "mark_completed"
    /\ sessions[s].state = Open
    /\ LET session == sessions[s] IN
       /\ settlements' = [settlements EXCEPT ![session.settlement_id].status = "completed"]
       /\ trades' = IF session.trade_id # NoId
                    THEN [trades EXCEPT ![session.trade_id].status = "settled"]
                    ELSE trades
       /\ exposures' = IF session.exposure_id # NoId
                       THEN [exposures EXCEPT ![session.exposure_id].status = "settled"]
                       ELSE exposures
    /\ sessions' = [sessions EXCEPT ![s].state = Committed]
    /\ UNCHANGED <<recs, orders, quotes, now, horizonVars, policyVars, decision>>
    /\ returned' = Ok

(***************************************************************************)
(* Clock                                                                   *)
(***************************************************************************)
\* datetime.utcnow() advances between requests
Tick ==
    /\ now < MaxTime
    /\ now' = now + 1
    /\ UNCHANGED <<exposures, recs, orders, quotes, trades, settlements, horizonVars, policyVars,
                   engineVars, returned>>

(***************************************************************************)
(* Horizon buckets                                                         *)
(***************************************************************************)
\* PolicyEngine.DEFAULT_HORIZONS, in the order of the dict
HorizonNames == <<"0-30", "31-60", "61-90", "91+">>

DEFAULT_HORIZONS ==
    [h \in {"0-30", "31-60", "61-90", "91+"} |->
        CASE h = "0-30" -> <<0, 30>>
          [] h = "31-60" -> <<31, 60>>
          [] h = "61-90" -> <<61, 90>>
          [] h = "91+" -> <<91, 9999>>]

InHorizon(h, d) == DEFAULT_HORIZONS[h][1] <= d /\ d <= DEFAULT_HORIZONS[h][2]

NotGrouped == << >>

NoHorizon == "none"

\* the first horizon, from position i of the dict on, that holds d days
RECURSIVE HorizonFrom(_, _)
HorizonFrom(i, d) ==
    IF i > Len(HorizonNames) THEN NoHorizon
    ELSE IF InHorizon(HorizonNames[i], d) THEN HorizonNames[i]
    ELSE HorizonFrom(i + 1, d)

\* days = max(0, (due_date - today).days), then the loop with its break
HorizonOf(delta) == HorizonFrom(1, Max(0, delta))

\* PolicyEngine._group_by_horizon over the list of exposures, each given by
\* (due_date - today).days; a bucket lists the positions of its exposures
GroupByHorizon(deltas) ==
    [h \in DOMAIN DEFAULT_HORIZONS |->
        {i \in DOMAIN deltas : HorizonOf(deltas[i]) = h}]

group_by_horizon ==
    /\ days # << >>
    /\ grouped = NotGrouped
    /\ grouped' = GroupByHorizon(days)
    /\ UNCHANGED <<days, storeVars, policyVars, engineVars>>
    /\ returned' = Ok

(***************************************************************************)
(* Policies                                                                *)
(***************************************************************************)
ApprovalAmounts == {NoAmount, 50000}

\* the default of HedgePolicyCreate.coverage_rules
DefaultCoverageRules ==
    [h \in {"0-30", "31-60", "61-90", "91+"} |->
        CASE h = "0-30" -> 100
          [] h = "31-60" -> 75
          [] h = "61-90" -> 50
          [] h = "91+" -> 25]

\* the HedgePolicyCreate bodies of the requests
PolicyData == [is_default : BOOLEAN, require_approval_above : ApprovalAmounts,
               coverage_rules : {DefaultCoverageRules}, min_amount : {0}]

\* the HedgePolicyUpdate bodies of the requests: the fields that were set
PolicyUpdates == UNION {[K -> BOOLEAN] : K \in SUBSET {"is_default", "is_active"}}

\* PolicyEngine.get_policy
GetPolicy(policy_id, company_id) ==
    IF policy_id \in DOMAIN policies /\ policies[policy_id].company_id = company_id
    THEN policy_id ELSE NoId

\* create_policy and update_policy leaving the default flag of the others
ClearDefaultPolicies_Kept(rows, company_id, exclude_id) == rows

\* PolicyEngine._clear_default_policies: one UPDATE over the company's default
\* rows, active or not, except exclude_id
ClearDefaultPolicies(rows, company_id, exclude_id) ==
    [p \in DOMAIN rows |->
        IF rows[p].company_id = company_id /\ rows[p].is_default /\ p # exclude_id
        THEN [rows[p] EXCEPT !.is_default = FALSE]
        ELSE rows[p]]

\* the HedgePolicy row built by create_policy
NewPolicy(company_id, data) ==
    [company_id |-> company_id,
     is_active |-> TRUE,
     is_default |-> data.is_default,
     require_approval_above |-> data.require_approval_above,
     coverage_rules |-> data.coverage_rules,
     min_amount |-> data.min_amount]

create_policy(company_id, data) ==
    /\ policies' = Append(IF data.is_default
                          THEN ClearDefaultPolicies(policies, company_id, NoId)
                          ELSE policies,
                          NewPolicy(company_id, data))
    /\ UNCHANGED <<storeVars, horizonVars, engineVars>>
    /\ returned' = Ok

\* the row after the setattr loop of update_policy
ApplyUpdates(policy, updates) ==
    [policy EXCEPT
        !.is_default = IF "is_default" \in DOMAIN updates
                       THEN updates["is_default"] ELSE @,
        !.is_active = IF "is_active" \in DOMAIN updates
                      THEN updates["is_active"] ELSE @]

update_policy(policy_id, company_id, updates) ==
    IF /\ GetPolicy(policy_id, company_id) # NoId
    THEN /\ LET cleared == IF "is_default" \in DOMAIN updates /\ updates["is_default"]
                           THEN ClearDefaultPolicies(policies, company_id, policy_id)
                           ELSE policies
            IN policies' = [cleared EXCEPT ![policy_id] = ApplyUpdates(@, updates)]
         /\ UNCHANGED <<storeVars, horizonVars, engineVars>>
         /\ returned' = Ok
    ELSE Fails

\* PolicyEngine.get_default_policy, as the set of rows the query matches
DefaultPolicies(company_id) ==
    {p \in DOMAIN policies : /\ policies[p].company_id = company_id
                             /\ policies[p].is_default
                             /\ policies[p].is_active}

(***************************************************************************)
(* Policy evaluation                                                       *)
(***************************************************************************)
\* PolicyEngine._get_exposures_to_evaluate: the company's open and partially
\* hedged exposures of at least the policy's min_amount, when it has one
ExposuresToEvaluate(company_id, policy) ==
    {e \in DOMAIN exposures :
        /\ exposures[e].company_id = company_id
        /\ exposures[e].status \in {"open", "partially_hedged"}
        /\ policy.min_amount # 0 => exposures[e].amount >= policy.min_amount}

\* policy.coverage_rules.get(horizon, 0)
TargetCoverage(policy, horizon) ==
    IF horizon \in DOMAIN policy.coverage_rules
    THEN policy.coverage_rules[horizon] ELSE 0

NoRecommendation == 0

\* PolicyEngine._evaluate_exposure: the amount_to_hedge of the recommendation,
\* NoRecommendation when it returns None
AmountToHedge(exposure, target_coverage) ==
    LET current_coverage == exposure.hedge_percentage
        target_hedged == (exposure.amount * target_coverage) \div 100
        amount_to_hedge == target_hedged - exposure.amount_hedged
    IN IF current_coverage >= target_coverage THEN NoRecommendation
       ELSE IF amount_to_hedge <= 0 THEN NoRecommendation
       ELSE amount_to_hedge

\* the validity of a recommendation, in ticks of the clock
ValidFor == 1

\* the HedgeRecommendation row built by _evaluate_exposure
NewRecommendation(exposure_id, amount_to_hedge) ==
    [company_id |-> exposures[exposure_id].company_id,
     exposure_id |-> exposure_id,
     amount_to_hedge |-> amount_to_hedge,
     suggested_rate |-> NoRate,
     valid_until |-> now + ValidFor,
     status |-> "pending",
     decided_at |-> NoTime,
     decided_by |-> NoUser]

\* the recommendations of one horizon: one for each exposure of the bucket, in
\* the order of the query, that _evaluate_exposure does not skip
RecommendationsOf(buckets, policy, horizon) ==
    LET target_coverage == TargetCoverage(policy, horizon)
        emitting == SelectSeq([e \in 1..Len(exposures) |-> e],
                        LAMBDA e : /\ e \in buckets[horizon]
                                   /\ AmountToHedge(exposures[e], target_coverage)
                                            # NoRecommendation)
    IN [i \in 1..Len(emitting) |->
            NewRecommendation(emitting[i],
                              AmountToHedge(exposures[emitting[i]], target_coverage))]

\* PolicyEngine.evaluate: the policy asked for, or the default one; days holds
\* (due_date - today).days of each exposure
evaluate(company_id, policy_id) ==
    LET found == IF policy_id # NoId
                 THEN {p \in {policy_id} : GetPolicy(p, company_id) # NoId}
                 ELSE DefaultPolicies(company_id)
    IN
    /\ IF found = {}
       THEN UNCHANGED <<recs, grouped>>
       ELSE LET policy == policies[CHOOSE p \in found : \A q \in found : p <= q]
                selected == ExposuresToEvaluate(company_id, policy)
                buckets == GroupByHorizon([e \in selected |-> days[e]])
            IN IF selected = {}
               THEN UNCHANGED <<recs, grouped>>
               ELSE /\ grouped' = buckets
                    /\ recs' = recs \o RecommendationsOf(buckets, policy, HorizonNames[1])
                                    \o RecommendationsOf(buckets, policy, HorizonNames[2])
                                    \o RecommendationsOf(buckets, policy, HorizonNames[3])
                                    \o RecommendationsOf(buckets, policy, HorizonNames[4])
    /\ returned' = Ok
    /\ UNCHANGED <<exposures, orders, quotes, trades, settlements, now, days, policyVars, engineVars>>

(***************************************************************************)
(* Recommended action                                                      *)
(***************************************************************************)
HedgeAction == {"hedge_now", "hedge_partial", "wait", "review"}

ExposureType == {"payable", "receivable"}

NoAction == "not decided"

\* PolicyEngine._determine_action, the one PolicyEngine.evaluate calls; d holds
\* the exposure's amount, target_rate and exposure_type, the policy's
\* max_single_exposure and rate_tolerance_up, and the arguments
DetermineAction(d) ==
    IF d.horizon = "0-30" THEN "hedge_now"
    ELSE IF d.current_coverage < 25 /\ d.target_coverage >= 50 THEN "hedge_now"
    ELSE IF d.target_coverage - d.current_coverage > 25 THEN "hedge_partial"
    ELSE IF /\ d.current_rate # NoRate
            /\ d.target_rate # NoRate
            /\ (IF d.current_rate >= d.target_rate
                THEN d.current_rate - d.target_rate
                ELSE d.target_rate - d.current_rate) * 100
                    > d.rate_tolerance_up * d.target_rate
         THEN "wait"
    ELSE IF d.max_single_exposure # NoAmount /\ d.amount > d.max_single_exposure
         THEN "review"
    ELSE IF d.horizon \in {"31-60", "61-90"} THEN "hedge_partial"
    ELSE "wait"

\* policy_engine_helpers.determine_action, the one policy_engine_core calls
HelperDetermineAction(d) ==
    IF d.max_single_exposure # NoAmount /\ d.amount >= d.max_single_exposure
    THEN "review"
    ELSE IF d.horizon = "0-30" THEN "hedge_now"
    ELSE IF d.horizon \in {"31-60", "61-90"}
         THEN IF d.current_coverage * 2 < d.target_coverage
              THEN "hedge_now" ELSE "hedge_partial"
    ELSE IF /\ d.current_rate # NoRate
            /\ d.target_rate # NoRate
            /\ IF d.exposure_type = "payable"
               THEN d.current_rate <= d.target_rate
               ELSE d.current_rate >= d.target_rate
         THEN "hedge_now"
    ELSE "wait"

engine_determine_action ==
    /\ decision # NoDecision
    /\ decision.action = NoAction
    /\ decision' = [decision EXCEPT !.action = DetermineAction(decision)]
    /\ UNCHANGED <<storeVars, horizonVars, policyVars, sessions, returned>>

helper_determine_action ==
    /\ decision # NoDecision
    /\ decision.action = NoAction
    /\ decision' = [decision EXCEPT !.action = HelperDetermineAction(decision)]
    /\ UNCHANGED <<storeVars, horizonVars, policyVars, sessions, returned>>

(***************************************************************************)
(* Specifications                                                          *)
(***************************************************************************)
\* the store holds one open exposure of company A and one pending
\* recommendation for it, as ExposureService.create and PolicyEngine.evaluate
\* leave them
SeedExposures ==
    {<< [company_id |-> "A", amount |-> a, amount_hedged |-> 0,
         hedge_percentage |-> 0, status |-> "open"] >> : a \in ExposureAmounts}

SeedRecs ==
    {<< [company_id |-> "A", exposure_id |-> 1, amount_to_hedge |-> a,
         suggested_rate |-> NoRate, valid_until |-> 0, status |-> "pending",
         decided_at |-> NoTime, decided_by |-> NoUser] >> : a \in RecommendedAmounts}

StoreInit ==
    /\ exposures \in SeedExposures
    /\ recs \in SeedRecs
    /\ orders = << >>
    /\ quotes = << >>
    /\ trades = << >>
    /\ settlements = << >>
    /\ now = 0

Init ==
    /\ StoreInit
    /\ days = << >>
    /\ grouped = NotGrouped
    /\ policies = << >>
    /\ returned = NoCall
    /\ decision = NoDecision
    /\ sessions = NoSessions

\* the HedgeOrderCreate bodies of the requests: with or without an exposure,
\* with or without a recommendation, below and above the approval threshold
OrderData(exposure_ids, recommendation_ids) ==
    [exposure_id : exposure_ids,
     recommendation_id : recommendation_ids,
     amount : OrderAmounts,
     target_rate : {NoRate}]

\* Order workflow: creation, approval, quotes and execution
Next ==
    \/ /\ Len(orders) < MaxOrders
       /\ \E c \in Callers, d \in OrderData(DOMAIN exposures, {NoId}), u \in Treasurers :
                create_order(c, d, u)
    \/ \E o \in DOMAIN orders, c \in Callers, t \in UpdateRates : update_order(o, c, t)
    \/ \E o \in DOMAIN orders, c \in Callers, u \in Treasurers : approve_order(o, c, u)
    \/ \E o \in DOMAIN orders, c \in Callers : reject_order(o, c)
    \/ \E o \in DOMAIN orders, c \in Callers : cancel_order(o, c)
    \/ /\ Len(quotes) < MaxWorkflowQuotes
       /\ \E o \in DOMAIN orders, c \in Callers, v \in QuoteValidity : add_quote(o, c, v)
    \/ \E q \in DOMAIN quotes, o \in DOMAIN orders, c \in Callers : accept_quote(q, o, c)
    \/ \E o \in DOMAIN orders, c \in Callers, t \in TradeData : execute_order(o, c, t)
    \/ Tick

Spec == Init /\ [][Next]_vars

\* Quotes of an order: several quotes, their acceptance and the execution
QuoteNext ==
    \/ /\ Len(orders) < MaxOrders
       /\ \E c \in Callers, d \in OrderData(DOMAIN exposures, {NoId}), u \in Treasurers :
                create_order(c, d, u)
    \/ \E o \in DOMAIN orders, c \in Callers, u \in Treasurers : approve_order(o, c, u)
    \/ /\ Len(quotes) < MaxQuotes
       /\ \E o \in DOMAIN orders, c \in Callers, v \in QuoteValidity : add_quote(o, c, v)
    \/ \E q \in DOMAIN quotes, o \in DOMAIN orders, c \in Callers : accept_quote(q, o, c)
    \/ \E o \in DOMAIN orders, c \in Callers, t \in TradeData : execute_order(o, c, t)
    \/ Tick

QuoteSpec == Init /\ [][QuoteNext]_vars

\* the recommendation ids of the requests: the rows and one id of no row
RecommendationIds == 1..(Len(recs) + 1)

\* Recommendation lifecycle: decisions, expiry and the orders made from
\* recommendations
RecNext ==
    \/ \E r \in DOMAIN recs, c \in Callers, u \in Users : accept_recommendation(r, c, u)
    \/ \E r \in DOMAIN recs, c \in Callers, u \in Users : reject_recommendation(r, c, u)
    \/ \E c \in Callers : expire_old(c)
    \/ /\ Len(orders) < MaxRecOrders
       /\ \E c \in Callers, d \in OrderData({NoId} \cup DOMAIN exposures, {NoId} \cup DOMAIN recs), u \in Users :
                create_order(c, d, u)
    \/ /\ Len(orders) < MaxRecOrders
       /\ \E r \in RecommendationIds, c \in Callers, u \in Users :
                create_from_recommendation(r, c, u)
    \/ Tick

RecSpec == Init /\ [][RecNext]_vars

\* Hedge ledger: the operations that write an exposure's hedge fields and status
HedgeNext ==
    \/ \E e \in DOMAIN exposures, c \in Callers : delete_exposure(e, c)
    \/ \E e \in DOMAIN exposures, c \in Callers, h \in HedgeArguments :
            update_hedge_amount(e, c, h)
    \/ /\ Len(orders) < MaxOrders
       /\ \E c \in Callers, d \in OrderData({NoId} \cup DOMAIN exposures, {NoId}), u \in Treasurers : create_order(c, d, u)
    \/ \E o \in DOMAIN orders, c \in Callers, u \in Treasurers : approve_order(o, c, u)
    \/ \E o \in DOMAIN orders, c \in Callers, t \in TradeData : execute_order(o, c, t)
    \/ /\ Len(settlements) + 2 <= MaxSettlements
       /\ \E t \in DOMAIN trades : create_from_trade(t)
    \/ \E s \in DOMAIN settlements : mark_completed(s)

HedgeSpec == Init /\ [][HedgeNext]_vars

\* Settlement lifecycle of the trades of executed orders
SettlementNext ==
    \/ /\ Len(orders) < MaxOrders
       /\ \E c \in Callers, d \in OrderData({NoId} \cup DOMAIN exposures, {NoId}), u \in Treasurers : create_order(c, d, u)
    \/ \E o \in DOMAIN orders, c \in Callers, u \in Treasurers : approve_order(o, c, u)
    \/ \E o \in DOMAIN orders, c \in Callers, t \in TradeData : execute_order(o, c, t)
    \/ /\ Len(settlements) < MaxSettlements
       /\ \E t \in DOMAIN trades, d \in SettlementData : create_settlement(d, t)
    \/ /\ Len(settlements) + 2 <= MaxSettlements
       /\ \E t \in DOMAIN trades : create_from_trade(t)
    \/ \E s \in DOMAIN settlements, st \in SettlementStatus : update_settlement(s, st)
    \/ \E s \in DOMAIN settlements : mark_processing(s)
    \/ \E s \in DOMAIN settlements : mark_completed(s)
    \/ \E s \in DOMAIN settlements : mark_failed(s)

SettlementSpec == Init /\ [][SettlementNext]_vars

\* Horizon grouping of a list of exposures
HorizonDeltas == {-1, 0, 30, 31, 60, 61, 90, 91, 9999, 10000}

HorizonInit ==
    /\ StoreInit
    /\ days \in UNION {[1..n -> HorizonDeltas] : n \in 1..MaxExposuresPerRun}
    /\ grouped = NotGrouped
    /\ policies = << >>
    /\ returned = NoCall
    /\ decision = NoDecision
    /\ sessions = NoSessions

HorizonNext == group_by_horizon

HorizonSpec == HorizonInit /\ [][HorizonNext]_vars

\* Policies of a company and the orders created under them
PolicyNext ==
    \/ /\ Len(policies) < MaxPolicies
       /\ \E c \in Callers, d \in PolicyData : create_policy(c, d)
    \/ \E p \in DOMAIN policies, c \in Callers, u \in PolicyUpdates : update_policy(p, c, u)
    \/ /\ Len(orders) < MaxOrders
       /\ \E c \in Callers, d \in OrderData({NoId} \cup DOMAIN exposures, {NoId}), u \in Treasurers :
                create_order(c, d, u)

PolicySpec == Init /\ [][PolicyNext]_vars

\* Two tenants: the store holds, beside company A's exposure and
\* recommendation, an exposure and a pending recommendation of company B, and
\* every call is made for company A
OtherCompanies == {"B"}

TenantInit ==
    /\ exposures \in {e \o << [company_id |-> b, amount |-> a, amount_hedged |-> 0,
                                hedge_percentage |-> 0, status |-> "open"] >> :
                            e \in SeedExposures, b \in OtherCompanies, a \in ExposureAmounts}
    /\ recs \in {r \o << [company_id |-> b, exposure_id |-> 2, amount_to_hedge |-> a,
                           suggested_rate |-> NoRate, valid_until |-> 0,
                           status |-> "pending", decided_at |-> NoTime,
                           decided_by |-> NoUser] >> :
                       r \in SeedRecs, b \in OtherCompanies, a \in RecommendedAmounts}
    /\ orders = << >>
    /\ quotes = << >>
    /\ trades = << >>
    /\ settlements = << >>
    /\ now = 0
    /\ days = << >>
    /\ grouped = NotGrouped
    /\ policies = << >>
    /\ returned = NoCall
    /\ decision = NoDecision
    /\ sessions = NoSessions

TenantNext ==
    \/ \E e \in DOMAIN exposures, c \in Callers, h \in HedgeArguments :
            update_hedge_amount(e, c, h)
    \/ \E e \in DOMAIN exposures, c \in Callers : delete_exposure(e, c)
    \/ \E r \in DOMAIN recs, c \in Callers, u \in Treasurers : accept_recommendation(r, c, u)
    \/ \E r \in DOMAIN recs, c \in Callers, u \in Treasurers : reject_recommendation(r, c, u)
    \/ /\ Len(orders) < MaxOrders
       /\ \E r \in DOMAIN recs, c \in Callers, u \in Treasurers :
                create_from_recommendation(r, c, u)
    \/ /\ Len(orders) < MaxOrders
       /\ \E c \in Callers, d \in OrderData({NoId} \cup DOMAIN exposures, {NoId} \cup DOMAIN recs), u \in Treasurers :
                create_order(c, d, u)
    \/ \E o \in DOMAIN orders, c \in Callers, u \in Treasurers : approve_order(o, c, u)
    \/ \E o \in DOMAIN orders, c \in Callers, t \in TradeData : execute_order(o, c, t)

TenantSpec == TenantInit /\ [][TenantNext]_vars

\* Exposure ledger: every operation that writes an exposure's amount or its
\* hedge fields
LedgerNext ==
    \/ /\ Len(exposures) < MaxExposures
       /\ \E c \in Callers, a \in ExposureAmounts : create_exposure(c, a)
    \/ \E e \in DOMAIN exposures, c \in Callers, d \in ExposureUpdates : update_exposure(e, c, d)
    \/ \E c \in Callers, e \in {NoId} \cup DOMAIN exposures, a \in UpdateAmounts :
            /\ e = NoId => Len(exposures) < MaxExposures
            /\ upsert_row(c, e, a)
    \/ \E e \in DOMAIN exposures, c \in Callers, h \in HedgeArguments :
            update_hedge_amount(e, c, h)
    \/ /\ Len(orders) < MaxOrders
       /\ \E c \in Callers, d \in OrderData(DOMAIN exposures, {NoId}), u \in Treasurers :
                create_order(c, d, u)
    \/ \E o \in DOMAIN orders, c \in Callers, u \in Treasurers : approve_order(o, c, u)
    \/ \E o \in DOMAIN orders, c \in Callers, t \in TradeData : execute_order(o, c, t)

LedgerSpec == Init /\ [][LedgerNext]_vars

\* Policy evaluation: the store holds the exposures of company A, in the order
\* of their due dates, and its default policy
\* the last one had its amount raised after it was hedged
EvaluatedExposures ==
    {[company_id |-> "A", amount |-> a, amount_hedged |-> x[1],
      hedge_percentage |-> x[2], status |-> x[3]] :
        a \in ExposureAmounts,
        x \in {<<0, 0, "open">>, <<100000, 50, "partially_hedged">>,
               <<200000, 100, "fully_hedged">>, <<0, 0, "cancelled">>,
               <<50000, 50, "partially_hedged">>}}

EvaluationDeltas == {0, 31, 10000}

EvaluationRules == {DefaultCoverageRules, [h \in {"0-30"} |-> 50]}

EvaluationMinAmounts == {0, 250000}

EvalInit ==
    /\ exposures \in UNION {[1..n -> EvaluatedExposures] : n \in 1..MaxExposuresPerRun}
    /\ days \in {d \in [1..Len(exposures) -> EvaluationDeltas] :
                    \A i, j \in 1..Len(exposures) : i <= j => d[i] <= d[j]}
    /\ policies \in {<< [company_id |-> "A", is_active |-> TRUE, is_default |-> TRUE,
                          require_approval_above |-> NoAmount,
                          coverage_rules |-> r, min_amount |-> m] >> :
                            r \in EvaluationRules, m \in EvaluationMinAmounts}
    /\ recs = << >>
    /\ orders = << >>
    /\ quotes = << >>
    /\ trades = << >>
    /\ settlements = << >>
    /\ now = 0
    /\ grouped = NotGrouped
    /\ returned = NoCall
    /\ decision = NoDecision
    /\ sessions = NoSessions

EvalNext ==
    /\ Len(recs) < MaxRecommendations
    /\ \E c \in Callers, p \in {NoId} \cup DOMAIN policies : evaluate(c, p)

EvalSpec == EvalInit /\ [][EvalNext]_vars

\* Recommended action of an exposure that gets a recommendation: its coverage
\* is below the target of its horizon
MaxSingleExposures == {NoAmount, 200000, 300000}

Coverages == {0, 30, 60}

Targets == {25, 50, 75, 100}

CurrentRates == {NoRate, 4000, 4150}

TargetRates == {NoRate, 4100}

RateTolerances == {2}

ActionInit ==
    /\ StoreInit
    /\ days = << >>
    /\ grouped = NotGrouped
    /\ policies = << >>
    /\ returned = NoCall
    /\ sessions = NoSessions
    /\ decision \in {d \in [amount : ExposureAmounts,
                             exposure_type : ExposureType,
                             target_rate : TargetRates,
                             max_single_exposure : MaxSingleExposures,
                             rate_tolerance_up : RateTolerances,
                             horizon : DOMAIN DEFAULT_HORIZONS,
                             current_coverage : Coverages,
                             target_coverage : Targets,
                             current_rate : CurrentRates,
                             action : {NoAction}] :
                        d.current_coverage < d.target_coverage}

ActionNext ==
    \/ engine_determine_action
    \/ helper_determine_action

ActionSpec == ActionInit /\ [][ActionNext]_vars

\* Expiry sweep: the store holds recommendations of two companies, with and
\* without valid_until, and each company decides and sweeps its own
ValidUntils == {NoTime, 0, 1}

ExpiryInit ==
    /\ exposures \in SeedExposures
    /\ recs \in [1..MaxRecommendations ->
                    [company_id : Callers \cup OtherCompanies, exposure_id : {1},
                     amount_to_hedge : RecommendedAmounts, suggested_rate : {NoRate},
                     valid_until : ValidUntils, status : {"pending"},
                     decided_at : {NoTime}, decided_by : {NoUser}]]
    /\ orders = << >>
    /\ quotes = << >>
    /\ trades = << >>
    /\ settlements = << >>
    /\ now = 0
    /\ days = << >>
    /\ grouped = NotGrouped
    /\ policies = << >>
    /\ returned = NoCall
    /\ decision = NoDecision
    /\ sessions = NoSessions

ExpiryNext ==
    \/ \E r \in DOMAIN recs, c \in Callers \cup OtherCompanies, u \in Treasurers :
            accept_recommendation(r, c, u)
    \/ \E r \in DOMAIN recs, c \in Callers \cup OtherCompanies, u \in Treasurers :
            reject_recommendation(r, c, u)
    \/ \E c \in Callers \cup OtherCompanies : expire_old(c)
    \/ Tick

ExpirySpec == ExpiryInit /\ [][ExpiryNext]_vars

\* Concurrent executions: orders of one company, executed by requests whose
\* reads and commits interleave
RaceNext ==
    \/ /\ Len(orders) < MaxExposureOrders
       /\ \E c \in Callers, d \in OrderData(DOMAIN exposures, {NoId}), u \in Treasurers :
                create_order(c, d, u)
    \/ \E o \in DOMAIN orders, c \in Callers, u \in Treasurers : approve_order(o, c, u)
    \/ /\ Len(sessions) < MaxSessions
       /\ \E o \in DOMAIN orders, c \in Callers, t \in TradeData :
                begin_execute_order(o, c, t)
    \/ \E s \in DOMAIN sessions : commit_execute_order(s)

RaceSpec == Init /\ [][RaceNext]_vars

\* Concurrent settlement: the legs of a trade, completed by requests whose
\* reads and commits interleave
SettleRaceNext ==
    \/ /\ Len(orders) < MaxOrders
       /\ \E c \in Callers, d \in OrderData(DOMAIN exposures, {NoId}), u \in Treasurers :
                create_order(c, d, u)
    \/ \E o \in DOMAIN orders, c \in Callers, u \in Treasurers : approve_order(o, c, u)
    \/ \E o \in DOMAIN orders, c \in Callers, t \in TradeData : execute_order(o, c, t)
    \/ /\ Len(settlements) + 2 <= MaxSettlements
       /\ \E t \in DOMAIN trades : create_from_trade(t)
    \/ /\ Len(sessions) < MaxSessions
       /\ \E s \in DOMAIN settlements : begin_mark_completed(s)
    \/ \E s \in DOMAIN sessions : commit_mark_completed(s)

SettleRaceSpec == Init /\ [][SettleRaceNext]_vars

\* Several orders on one exposure: their executions and the settlement of
\* their trades
CoverNext ==
    \/ /\ Len(orders) < MaxExposureOrders
       /\ \E c \in Callers, d \in OrderData(DOMAIN exposures, {NoId}), u \in Treasurers :
                create_order(c, d, u)
    \/ \E o \in DOMAIN orders, c \in Callers, u \in Treasurers : approve_order(o, c, u)
    \/ \E o \in DOMAIN orders, c \in Callers, t \in TradeData : execute_order(o, c, t)
    \/ /\ Len(settlements) + 2 <= MaxSettlements
       /\ \E t \in DOMAIN trades : create_from_trade(t)
    \/ \E s \in DOMAIN settlements : mark_completed(s)

CoverSpec == Init /\ [][CoverNext]_vars

(***************************************************************************)
(* Properties                                                              *)
(***************************************************************************)
\* the step executes order o
Executes(o) ==
    /\ o \in DOMAIN orders
    /\ orders[o].status # "executed"
    /\ orders'[o].status = "executed"

TradesOf(o) == {t \in DOMAIN trades : trades[t].order_id = o}

QuotesAccepted(o) == {q \in DOMAIN quotes : quotes[q].order_id = o /\ quotes[q].is_accepted}

\* C1: every exposure keeps 0 <= amount_hedged <= amount after any sequence of
\* update_hedge_amount and execute_order calls (update_hedge_amount clamps its
\* argument to [0, amount]).
C1_HedgedWithinAmount ==
    \A e \in DOMAIN exposures :
        /\ 0 <= exposures[e].amount_hedged
        /\ exposures[e].amount_hedged <= exposures[e].amount

C3_ExecutedOnlyFromApprovedOrQuoted ==
    [][/\ \A o \in DOMAIN orders :
            /\ orders[o].status = "executed" =>
                    o \in DOMAIN orders' /\ orders'[o].status = "executed"
            /\ Executes(o) =>
                    /\ orders[o].status \in {"approved", "quoted"}
                    /\ Len(trades') = Len(trades) + 1
                    /\ trades'[Len(trades')].order_id = o
       /\ \A o \in DOMAIN orders' \ DOMAIN orders : orders'[o].status # "executed"
      ]_vars

\* an executed order that holds an accepted quote
C3_Witness ==
    \E o \in DOMAIN orders :
        /\ orders[o].status = "executed"
        /\ QuotesAccepted(o) # {}

\* C4: a trade is SETTLED exactly when it has settlements and all of them are
\* COMPLETED, after any sequence of settlement operations.
C4_SettledIffAllCompleted ==
    \A t \in DOMAIN trades :
        trades[t].status = "settled"
            <=> (ListForTrade(settlements, t) # {} /\ AllCompleted(settlements, t))

\* C5: the step that executes an order leaves its new trade with exactly two
\* settlement legs, the sold amount and the bought amount, both PENDING and
\* dated at the trade's value date.
C5_TwoLegsOnExecution ==
    [][\A t \in DOMAIN trades' \ DOMAIN trades :
            LET legs == ListForTrade(settlements', t) IN
            /\ Cardinality(legs) = 2
            /\ \A s \in legs :
                    /\ settlements'[s].status = "pending"
                    /\ settlements'[s].settlement_date = trades'[t].value_date
            /\ \E s \in legs :
                    /\ settlements'[s].amount = trades'[t].amount_sold
                    /\ settlements'[s].currency = trades'[t].currency_sold
            /\ \E s \in legs :
                    /\ settlements'[s].amount = trades'[t].amount_bought
                    /\ settlements'[s].currency = trades'[t].currency_bought
      ]_vars

\* C6: a recommendation's status changes only from PENDING, and a decided
\* (ACCEPTED, REJECTED or EXPIRED) recommendation keeps its status, decided_at
\* and decided_by in every step.
C6_DecidedIsFinal ==
    [][\A r \in DOMAIN recs :
            recs[r].status # "pending" =>
                /\ recs'[r].status = recs[r].status
                /\ recs'[r].decided_at = recs[r].decided_at
                /\ recs'[r].decided_by = recs[r].decided_by
      ]_vars

\* C7: every order has at most one trade, and has one exactly when it is EXECUTED.
C7_OneTradePerExecutedOrder ==
    \A o \in DOMAIN orders :
        /\ Cardinality(TradesOf(o)) <= 1
        /\ Cardinality(TradesOf(o)) = 1 <=> orders[o].status = "executed"

\* an executed order with its trade, beside a quote added to it
C7_Witness ==
    \E o \in DOMAIN orders :
        /\ orders[o].status = "executed"
        /\ Cardinality(TradesOf(o)) = 1
        /\ \E q \in DOMAIN quotes : quotes[q].order_id = o

\* C8: horizon grouping places every exposure of the list, whatever its days to
\* maturity, in exactly one bucket.
C8_EveryExposureInOneBucket ==
    grouped # NotGrouped =>
        \A i \in DOMAIN days :
            Cardinality({h \in DOMAIN grouped : i \in grouped[h]}) = 1

\* C9: when a step executes an order, at most one quote of that order is accepted.
C9_OneAcceptedQuoteAtExecution ==
    [][\A o \in DOMAIN orders :
            Executes(o) => Cardinality(QuotesAccepted(o)) <= 1
      ]_vars

\* C10: the step that executes an order with an exposure sets that exposure's
\* amount_hedged to min(amount, amount_hedged + order.amount), its
\* hedge_percentage to the share that is of amount and its status to
\* FULLY_HEDGED when the amount is reached and PARTIALLY_HEDGED otherwise, and
\* changes no other exposure; executing an order without exposure changes none.
C10_ExecutionCreditsExposure ==
    [][\A o \in DOMAIN orders :
            Executes(o) =>
                LET e == orders[o].exposure_id IN
                IF e \in DOMAIN exposures
                THEN LET expected == Min(exposures[e].amount,
                                         exposures[e].amount_hedged + orders[o].amount)
                     IN /\ exposures'[e].amount_hedged = expected
                        /\ exposures'[e].hedge_percentage * exposures[e].amount
                                = expected * 100
                        /\ exposures'[e].status =
                                IF expected >= exposures[e].amount
                                THEN "fully_hedged" ELSE "partially_hedged"
                        /\ exposures'[e].amount = exposures[e].amount
                        /\ \A x \in DOMAIN exposures \ {e} : exposures'[x] = exposures[x]
                ELSE exposures' = exposures
      ]_vars

\* an executed order larger than what was left open of its exposure, which is
\* hedged to its amount and no further
C10_Witness ==
    \E o \in DOMAIN orders :
        /\ orders[o].status = "executed"
        /\ orders[o].exposure_id \in DOMAIN exposures
        /\ orders[o].amount > exposures[orders[o].exposure_id].amount
        /\ exposures[orders[o].exposure_id].amount_hedged
                = exposures[orders[o].exposure_id].amount
        /\ exposures[orders[o].exposure_id].status = "fully_hedged"

\* the approval threshold a company has configured: require_approval_above of
\* its default policy, and the orchestrator's 100,000 when there is none
ConfiguredThreshold(company_id) ==
    IF \E p \in DefaultPolicies(company_id) : policies[p].require_approval_above # NoAmount
    THEN policies[CHOOSE p \in DefaultPolicies(company_id) :
                    policies[p].require_approval_above # NoAmount].require_approval_above
    ELSE ApprovalThreshold

\* C11: an order is created PENDING_APPROVAL with requires_approval exactly when
\* its amount is at least the approval threshold configured for its company
\* (100,000 when none is configured), and APPROVED without requires_approval
\* otherwise.
C11_ApprovalFollowsConfiguredThreshold ==
    [][\A o \in DOMAIN orders' \ DOMAIN orders :
            IF orders'[o].amount >= ConfiguredThreshold(orders'[o].company_id)
            THEN orders'[o].status = "pending_approval" /\ orders'[o].requires_approval
            ELSE orders'[o].status = "approved" /\ ~orders'[o].requires_approval
      ]_vars

C13_AcceptedCanBeConverted ==
    [][\A r \in DOMAIN recs, c \in Callers, u \in Users :
            (/\ recs[r].status = "accepted"
             /\ \A o \in DOMAIN orders : orders[o].recommendation_id # r
             /\ GetRecommendation(r, c) # NoId
             /\ create_from_recommendation(r, c, u)) =>
                /\ returned' = Ok
                /\ Len(orders') = Len(orders) + 1
                /\ orders'[Len(orders')].recommendation_id = r
      ]_vars

\* C14: REJECTED and CANCELLED are entered only from the states that are not
\* terminal, and an order that is REJECTED or CANCELLED keeps its status in
\* every step, whatever is called on it.
C14_RejectedAndCancelledAreTerminal ==
    [][\A o \in DOMAIN orders :
            /\ orders[o].status \in {"rejected", "cancelled"} =>
                    orders'[o].status = orders[o].status
            /\ (orders'[o].status \in {"rejected", "cancelled"}
                    /\ orders'[o].status # orders[o].status) =>
                    orders[o].status \notin {"executed", "rejected", "cancelled"}
      ]_vars

\* C15: a settlement's status changes only from PENDING to PROCESSING, from
\* PROCESSING to COMPLETED, or from PENDING or PROCESSING to FAILED; a COMPLETED
\* or FAILED settlement keeps its status in every step.
C15_SettlementStatusPath ==
    [][\A s \in DOMAIN settlements :
            settlements'[s].status # settlements[s].status =>
                <<settlements[s].status, settlements'[s].status>> \in
                    {<<"pending", "processing">>, <<"processing", "completed">>,
                     <<"pending", "failed">>, <<"processing", "failed">>}
      ]_vars

\* C16: accept_quote on a quote of the order whose valid_until is before now
\* returns None, marks the quote expired and leaves its is_accepted and the
\* orders as they are; on a quote that is not past valid_until it sets
\* is_accepted and leaves the orders as they are.
C16_AcceptQuoteChecksValidity ==
    [][\A q \in DOMAIN quotes, o \in DOMAIN orders, c \in Callers :
            (/\ GetOrder(o, c) # NoId
             /\ quotes[q].order_id = o
             /\ accept_quote(q, o, c)) =>
                /\ orders' = orders
                /\ \A x \in DOMAIN quotes \ {q} : quotes'[x] = quotes[x]
                /\ IF quotes[q].valid_until # NoTime /\ quotes[q].valid_until < now
                   THEN /\ returned' = None
                        /\ quotes'[q].is_expired
                        /\ quotes'[q].is_accepted = quotes[q].is_accepted
                   ELSE /\ returned' = Ok
                        /\ quotes'[q].is_accepted
                        /\ quotes'[q].is_expired = quotes[q].is_expired
      ]_vars

\* a quote found past its validity when it was to be accepted, beside an
\* accepted one of the same order
C16_Witness ==
    \E q, x \in DOMAIN quotes :
        /\ quotes[q].valid_until # NoTime /\ quotes[q].valid_until < now
        /\ quotes[q].is_expired /\ ~quotes[q].is_accepted
        /\ quotes[x].order_id = quotes[q].order_id
        /\ quotes[x].is_accepted /\ ~quotes[x].is_expired
        /\ returned = None

\* C17: no call made for one company changes an exposure or a recommendation
\* of another company, whatever ids the call carries.
C17_TenantIsolation ==
    [][/\ \A e \in DOMAIN exposures :
            exposures[e].company_id \notin Callers => exposures'[e] = exposures[e]
       /\ \A r \in DOMAIN recs :
            recs[r].company_id \notin Callers => recs'[r] = recs[r]
      ]_vars

\* C18: in every state every exposure with amount > 0 has hedge_percentage =
\* amount_hedged / amount * 100, to the precision of the stored percentage.
C18_PercentageFollowsAmounts ==
    \A e \in DOMAIN exposures :
        exposures[e].amount > 0 =>
            /\ exposures[e].hedge_percentage * exposures[e].amount
                    <= exposures[e].amount_hedged * 100
            /\ exposures[e].amount_hedged * 100
                    < (exposures[e].hedge_percentage + 1) * exposures[e].amount

\* C19: every company has at most one active policy that is the default.
C19_OneDefaultPolicy ==
    \A c \in Callers : Cardinality(DefaultPolicies(c)) <= 1

\* two active policies of one company, the later one the default after the
\* earlier one had been
C19_Witness ==
    \E p, q \in DOMAIN policies :
        /\ p < q
        /\ policies[p].company_id = policies[q].company_id
        /\ policies[p].is_active /\ policies[q].is_active
        /\ ~policies[p].is_default /\ policies[q].is_default

\* C20: an evaluation run emits a recommendation for an exposure exactly when
\* the exposure is OPEN or PARTIALLY_HEDGED, passes the policy's filters, is
\* covered below its bucket target T and amount * T / 100 - amount_hedged > 0;
\* the recommendation's amount_to_hedge is that difference, and no exposure gets
\* two recommendations in the run.  T is the coverage rule, in the company's
\* policy, of the horizon that holds the exposure's days to maturity, the last
\* horizon being open-ended.
C20_RecommendationIffBelowTarget ==
    [][\A e \in DOMAIN exposures :
            LET emitted == {r \in DOMAIN recs' \ DOMAIN recs : recs'[r].exposure_id = e}
                d == Max(0, days[e])
                horizon == IF d <= 30 THEN "0-30" ELSE IF d <= 60 THEN "31-60"
                           ELSE IF d <= 90 THEN "61-90" ELSE "91+"
                T == TargetCoverage(policies[1], horizon)
                to_hedge == (exposures[e].amount * T) \div 100 - exposures[e].amount_hedged
                due == /\ exposures[e].status \in {"open", "partially_hedged"}
                       /\ exposures[e].amount >= policies[1].min_amount
                       /\ exposures[e].amount_hedged * 100 < T * exposures[e].amount
                       /\ to_hedge > 0
            IN /\ Cardinality(emitted) = IF due THEN 1 ELSE 0
               /\ \A r \in emitted : recs'[r].amount_to_hedge = to_hedge
      ]_vars

\* C21: the action of a recommendation is REVIEW if amount >=
\* max_single_exposure; else HEDGE_NOW if the horizon is 0-30 or the current
\* coverage is below half the target; else HEDGE_PARTIAL if the horizon is 31-60
\* or 61-90; else HEDGE_NOW when the current rate is favorable against the
\* exposure's target rate (at or below it for a payable, at or above it for a
\* receivable) and WAIT otherwise.
C21_ActionRule ==
    (decision # NoDecision /\ decision.action # NoAction) =>
        LET d == decision
            favorable == /\ d.current_rate # NoRate
                         /\ d.target_rate # NoRate
                         /\ IF d.exposure_type = "payable"
                            THEN d.current_rate <= d.target_rate
                            ELSE d.current_rate >= d.target_rate
        IN d.action =
            IF d.max_single_exposure # NoAmount /\ d.amount >= d.max_single_exposure
            THEN "review"
            ELSE IF d.horizon = "0-30" \/ d.current_coverage * 2 < d.target_coverage
                 THEN "hedge_now"
            ELSE IF d.horizon \in {"31-60", "61-90"} THEN "hedge_partial"
            ELSE IF favorable THEN "hedge_now"
            ELSE "wait"

\* C22: a sweep expire_old(c) at time now leaves no recommendation of c PENDING
\* with valid_until < now; every row it changes was a PENDING one of c with
\* valid_until < now and differs by its status EXPIRED alone; every other row
\* (decided, not past valid_until, or of another company) is as before.
C22_ExpireOldSweepsPastPending ==
    [][\A c \in Callers \cup OtherCompanies :
            expire_old(c) =>
                /\ \A r \in DOMAIN recs' :
                        ~(/\ recs'[r].company_id = c
                          /\ recs'[r].status = "pending"
                          /\ recs'[r].valid_until # NoTime
                          /\ recs'[r].valid_until < now)
                /\ \A r \in DOMAIN recs :
                        recs'[r] # recs[r] =>
                            /\ recs[r].company_id = c
                            /\ recs[r].status = "pending"
                            /\ recs[r].valid_until # NoTime
                            /\ recs[r].valid_until < now
                            /\ recs'[r] = [recs[r] EXCEPT !.status = "expired"]
      ]_vars

\* a swept recommendation beside a pending one of another company that is past
\* its valid_until too
C22_Witness ==
    \E r, q \in DOMAIN recs :
        /\ recs[r].status = "expired"
        /\ recs[r].valid_until < now
        /\ recs[q].company_id # recs[r].company_id
        /\ recs[q].status = "pending"
        /\ recs[q].valid_until # NoTime
        /\ recs[q].valid_until < now
        /\ returned = Ok

\* C23: when mark_completed completes the last settlement of a trade that was
\* not COMPLETED, the trade becomes SETTLED in that step and, if the trade's
\* order has an exposure whose amount_hedged equals its amount, so does the
\* exposure; while another settlement of the trade is not COMPLETED the step
\* changes no trade and no exposure.
C23_SettlementPropagates ==
    [][\A s \in DOMAIN settlements :
            mark_completed(s) =>
                LET t == settlements[s].trade_id
                    e == orders[trades[t].order_id].exposure_id
                IN IF \A x \in ListForTrade(settlements, t) \ {s} :
                            settlements[x].status = "completed"
                   THEN /\ trades'[t].status = "settled"
                        /\ (/\ e \in DOMAIN exposures
                             /\ exposures[e].amount_hedged = exposures[e].amount) =>
                                exposures'[e].status = "settled"
                   ELSE /\ trades' = trades
                        /\ exposures' = exposures
      ]_vars

\* a trade settled by the completion of its second leg, with its exposure
C23_Witness ==
    \E t \in DOMAIN trades :
        /\ trades[t].status = "settled"
        /\ Cardinality(ListForTrade(settlements, t)) = 2
        /\ AllCompleted(settlements, t)
        /\ orders[trades[t].order_id].exposure_id \in DOMAIN exposures
        /\ exposures[orders[trades[t].order_id].exposure_id].status = "settled"

\* C24: approve_order or reject_order on an order that is not PENDING_APPROVAL,
\* update_order on one that is neither DRAFT nor PENDING_APPROVAL, execute_order
\* on one that is neither APPROVED nor QUOTED and cancel_order on an EXECUTED one
\* return None and leave the orders, quotes, trades and exposures as they are.
C24_InvalidStateFails ==
    [][\A o \in DOMAIN orders, c \in Callers :
            LET status == orders[o].status
                refused == /\ returned' = None
                           /\ orders' = orders
                           /\ quotes' = quotes
                           /\ trades' = trades
                           /\ exposures' = exposures
            IN /\ \A u \in Treasurers :
                    (status # "pending_approval" /\ approve_order(o, c, u)) => refused
               /\ (status # "pending_approval" /\ reject_order(o, c)) => refused
               /\ \A t \in UpdateRates :
                    (status \notin {"draft", "pending_approval"} /\ update_order(o, c, t))
                        => refused
               /\ \A t \in TradeData :
                    (status \notin {"approved", "quoted"} /\ execute_order(o, c, t))
                        => refused
               /\ (status = "executed" /\ cancel_order(o, c)) => refused
      ]_vars

\* an executed order, with its one trade, after a call on it was refused
C24_Witness ==
    \E o \in DOMAIN orders :
        /\ orders[o].status = "executed"
        /\ Cardinality(TradesOf(o)) = 1
        /\ returned = None

\* two committed execute_order sessions of different orders on one exposure
\* that both read the same amount_hedged of it
BothReadStale(s1, s2) ==
    /\ s1 # s2
    /\ sessions[s1].request = "execute_order"
    /\ sessions[s2].request = "execute_order"
    /\ sessions[s1].state = Committed
    /\ sessions[s2].state = Committed
    /\ sessions[s1].order_id # sessions[s2].order_id
    /\ sessions[s1].exposure_id # NoId
    /\ sessions[s1].exposure_id = sessions[s2].exposure_id
    /\ sessions[s1].exposure.amount_hedged = sessions[s2].exposure.amount_hedged

\* C25: when the only two execute_order requests, for different orders on one
\* exposure, both read the same amount_hedged h0 and both commit, the exposure
\* holds what one of them alone computed, min(amount, h0 + a1) or
\* min(amount, h0 + a2); whenever neither of these reaches the exposure's
\* amount, that differs from min(amount, h0 + a1 + a2), the value of every
\* serial order of the two executions
C25_ConcurrentExecutionsLoseAnUpdate ==
    \A s1 \in DOMAIN sessions, s2 \in DOMAIN sessions :
        (Len(sessions) = 2 /\ BothReadStale(s1, s2)) =>
            LET e == sessions[s1].exposure_id
                h0 == sessions[s1].exposure.amount_hedged
                a1 == sessions[s1].amount
                a2 == sessions[s2].amount
                serial == Min(exposures[e].amount, h0 + a1 + a2)
            IN /\ exposures[e].amount_hedged \in
                        {Min(exposures[e].amount, h0 + a1),
                         Min(exposures[e].amount, h0 + a2)}
               /\ (h0 + Max(a1, a2) < exposures[e].amount) =>
                        exposures[e].amount_hedged # serial

\* both requests committed after reading the same stale amount_hedged, and the
\* exposure holds less than the serial executions would have left
C25_Witness ==
    \E s1 \in DOMAIN sessions, s2 \in DOMAIN sessions :
        /\ Len(sessions) = 2
        /\ BothReadStale(s1, s2)
        /\ LET e == sessions[s1].exposure_id
               h0 == sessions[s1].exposure.amount_hedged
           IN exposures[e].amount_hedged #
                Min(exposures[e].amount, h0 + sessions[s1].amount + sessions[s2].amount)

\* C26: once every mark_completed request has committed, a trade whose
\* settlement legs are all COMPLETED has status SETTLED
C26_ConcurrentLegsSettleTheTrade ==
    (\A s \in DOMAIN sessions : sessions[s].state = Committed) =>
        \A t \in DOMAIN trades :
            (/\ ListForTrade(settlements, t) # {}
             /\ AllCompleted(settlements, t)) => trades[t].status = "settled"

\* C27: an order that requires approval leaves PENDING_APPROVAL for a status
\* execute_order accepts only by a successful approve_order; an EXECUTED order
\* that requires approval has approved_by and approved_at set; and add_quote,
\* accept_quote and update_order leave a PENDING_APPROVAL order in a status
\* execute_order refuses
C27_ApprovalGate ==
    [][/\ \A o \in DOMAIN orders :
            (/\ orders[o].requires_approval
             /\ orders[o].status = "pending_approval"
             /\ orders'[o].status \in Executable \cup {"executed"}) =>
                (/\ \E c \in Callers, u \in Treasurers : approve_order(o, c, u)
                 /\ returned' = Ok)
       /\ \A o \in DOMAIN orders' :
            (orders'[o].status = "executed" /\ orders'[o].requires_approval) =>
                (/\ orders'[o].approved_by # NoUser
                 /\ orders'[o].approved_at # NoTime)
       /\ \A o \in DOMAIN orders :
            (/\ orders[o].status = "pending_approval"
             /\ \/ \E c \in Callers, v \in QuoteValidity : add_quote(o, c, v)
                \/ \E q \in DOMAIN quotes, c \in Callers : accept_quote(q, o, c)
                \/ \E c \in Callers, t \in UpdateRates : update_order(o, c, t)) =>
                orders'[o].status = "pending_approval"]_vars

\* an order that required approval was updated and quoted while pending, then
\* approved and executed
C27_Witness ==
    \E o \in DOMAIN orders :
        /\ orders[o].requires_approval
        /\ orders[o].status = "executed"
        /\ orders[o].approved_by # NoUser
        /\ orders[o].target_rate # NoRate
        /\ \E q \in DOMAIN quotes : quotes[q].order_id = o

\* C28: no two orders carry the same recommendation_id
C28_OneOrderPerRecommendation ==
    \A o1 \in DOMAIN orders, o2 \in DOMAIN orders :
        (o1 # o2 /\ orders[o1].recommendation_id # NoId) =>
            orders[o1].recommendation_id # orders[o2].recommendation_id

\* C29: an exposure is SETTLED only if every trade of every EXECUTED order
\* that references it is SETTLED
C29_SettledOnlyWhenEveryTradeSettled ==
    \A e \in DOMAIN exposures :
        exposures[e].status = "settled" =>
            \A o \in DOMAIN orders :
                (orders[o].exposure_id = e /\ orders[o].status = "executed") =>
                    \A t \in TradesOf(o) : trades[t].status = "settled"

\* C30: execute_order leaves every exposure whose status is CANCELLED or
\* SETTLED as it was
C30_ExecuteLeavesClosedExposures ==
    [][\A o \in DOMAIN orders, c \in Callers, t \in TradeData :
            execute_order(o, c, t) =>
                \A e \in DOMAIN exposures :
                    exposures[e].status \in {"cancelled", "settled"} =>
                        exposures'[e] = exposures[e]]_vars

====
